---- MODULE Spec2Model ----
(***************************************************************************)
(* A model of the download orchestration of MediaFireBulkDownloader        *)
(* (src/python/mediafire.py, src/python/main.py).                          *)
(*                                                                         *)
(* The program is a set of asyncio coroutines run by one event loop.  A    *)
(* step of the model is what one task executes between two suspension      *)
(* points (a remote call, a chunk read, a gather); coroutines that are     *)
(* awaited but never suspend (parse_filename, get_mfkey_from_url,          *)
(* get_mediafire_folder_data) are operators.  Strings that the code        *)
(* inspects character by character are sequences of one-character          *)
(* strings; a URL is the sequence of its "/"-separated segments.           *)
(***************************************************************************)
EXTENDS Integers, Sequences, FiniteSets, TLC

(***************************************************************************)
(* Bounds of the model.                                                    *)
(***************************************************************************)
\* longest list of links (or of (url, filepath) pairs) the caller passes
MaxLinks == 2
\* largest value of the parameter `simultaneous`
MaxSimultaneous == 2
\* number of remote calls that fail in one behaviour
MaxFaults == 2
\* number of entries the remote API returns per chunk of a listing
PageLen == 1
\* number of times the caller runs the same invocation
MaxRuns == 2
\* longest filename handed to parse_filename on its own
MaxLen == 3

(***************************************************************************)
(* Text.                                                                   *)
(***************************************************************************)
\* str.isalnum() on the characters the model uses
Alnum == {"a", "b", "c", "e", "g", "d", "s", "t", "x", "R", "0", "1"}

\* mediafire.py:92, the comprehension's test
KeepChar(c) == c \in Alnum \/ c \in {"-", "_", ".", " "}

\* a sanitizer that drops the characters it does not keep
parse_filename_dropping(filename) == SelectSeq(filename, KeepChar)

\* mediafire.py:91-93
parse_filename(filename) ==
  [i \in 1..Len(filename) |-> IF KeepChar(filename[i]) THEN filename[i] ELSE "-"]

\* os.path.join(a, b) for two components: an absolute b replaces a
Join(a, b) ==
  IF Len(b) > 0 /\ b[1] = "/" THEN b
  ELSE IF Len(a) = 0 \/ a[Len(a)] = "/" THEN a \o b
  ELSE a \o <<"/">> \o b

\* the directories os.makedirs(path, exist_ok=True) makes sure exist:
\* path and each of its ancestors
Ancestors(path) ==
  { SubSeq(path, 1, i) : i \in { j \in 1..Len(path) :
                                   /\ path[j] # "/"
                                   /\ (j = Len(path) \/ path[j + 1] = "/") } }

RECURSIVE LastSlash(_, _)
LastSlash(path, i) ==
  IF i = 0 THEN 0 ELSE IF path[i] = "/" THEN i ELSE LastSlash(path, i - 1)

\* os.path.dirname
DirName(path) ==
  LET s == LastSlash(path, Len(path)) IN
  IF s <= 1 THEN SubSeq(path, 1, s) ELSE SubSeq(path, 1, s - 1)

(***************************************************************************)
(* The remote side: one shared file F0 and one shared folder FOLD with two *)
(* files, whose subfolders are SUB (one file) and SUB2 (one file).         *)
(***************************************************************************)
FileKeys == {"F0", "F1", "F2", "F3", "F4"}
FolderKeys == {"FOLD", "SUB", "SUB2"}

RemoteName(key) ==
  CASE key = "F0" -> <<"a", "?">>
    [] key = "F1" -> <<"b">>
    [] key = "F2" -> <<"c">>
    [] key = "F3" -> <<"e">>
    [] key = "F4" -> <<"g">>
    [] key = "FOLD" -> <<"R", ":">>
    [] key = "SUB" -> <<"s", "?">>
    [] key = "SUB2" -> <<"t">>

\* the bytes of a remote file, as the chunks iter_chunked yields them
RemoteBytes(key) ==
  CASE key = "F0" -> <<"x0", "y0">>
    [] key = "F1" -> <<"x1">>
    [] key = "F2" -> <<"x2">>
    [] key = "F3" -> <<"x3">>
    [] key = "F4" -> <<"x4">>

\* the files and the subfolders of a remote folder, in the order
\* order_by=name lists them
RemoteFiles(key) ==
  CASE key = "FOLD" -> <<"F1", "F2">>
    [] key = "SUB" -> <<"F3">>
    [] key = "SUB2" -> <<"F4">>

RemoteFolders(key) ==
  CASE key = "FOLD" -> <<"SUB", "SUB2">>
    [] key = "SUB" -> <<>>
    [] key = "SUB2" -> <<>>

\* hashlib.sha256 of a content, mediafire.py:13-18: an injective digest
hash_file_content(content) == <<"sha256">> \o content

\* the landing page and the direct download URL of a file
NormalDownload(key) == <<"www.mediafire.com", "file", key, "name", "file">>
DirectUrl(key) == <<"download.mediafire.com", key>>
NoUrl == <<>>

\* the key a direct download URL serves
UrlKey(url) == url[2]

\* file/get_info.php and one entry of folder_content.files
file_info(key) ==
  [ filename |-> RemoteName(key),
    hash |-> hash_file_content(RemoteBytes(key)),
    normal_download |-> NormalDownload(key) ]

\* chunk number `chunk` of a listing `all` of the remote API
Page(all, chunk) ==
  LET lo == (chunk - 1) * PageLen + 1
      hi == IF chunk * PageLen < Len(all) THEN chunk * PageLen ELSE Len(all)
  IN [ items |-> IF lo <= hi THEN SubSeq(all, lo, hi) ELSE <<>>,
       more_chunks |-> chunk * PageLen < Len(all) ]

(***************************************************************************)
(* Links.                                                                  *)
(***************************************************************************)
\* segments that match [a-zA-Z0-9]+
AlnumTokens == FileKeys \cup FolderKeys \cup {"view", "file", "folder"}

HostMatches(seg) == seg \in {"www.mediafire.com", "mediafire.com"}

\* a pattern that takes any segment after the host for the type, and what
\* is no folder for a file
get_mfkey_from_url_any_type(url) ==
  LET hits == { i \in 1..Len(url) :
                  /\ i + 2 <= Len(url)
                  /\ HostMatches(url[i])
                  /\ url[i + 1] \in AlnumTokens
                  /\ url[i + 2] \in AlnumTokens }
  IN IF hits = {} THEN [type |-> "None", key |-> "None"]
     ELSE LET i == CHOOSE j \in hits : \A h \in hits : j <= h
          IN [type |-> IF url[i + 1] = "folder" THEN "folder" ELSE "file",
              key |-> url[i + 2]]

\* mediafire.py:60-65: the first match of
\* mediafire\.com/(folder|file)\/([a-zA-Z0-9]+)
get_mfkey_from_url(url) ==
  LET hits == { i \in 1..Len(url) :
                  /\ i + 2 <= Len(url)
                  /\ HostMatches(url[i])
                  /\ url[i + 1] \in {"folder", "file"}
                  /\ url[i + 2] \in AlnumTokens }
  IN IF hits = {} THEN [type |-> "None", key |-> "None"]
     ELSE LET i == CHOOSE j \in hits : \A h \in hits : j <= h
          IN [type |-> url[i + 1], key |-> url[i + 2]]

(***************************************************************************)
(* The caller's inputs.                                                    *)
(***************************************************************************)
\* main.py:20
directory == <<"d">>

LinkFile == <<"https:", "www.mediafire.com", "file", "F0", "name", "file">>
LinkFolder == <<"https:", "www.mediafire.com", "folder", "FOLD", "name">>
LinkInvalid == <<"https:", "www.mediafire.com", "view", "F0">>

\* the links a caller passes: their targets are pairwise disjoint, as
\* spec.md section 5 requires of link sets submitted together
LinkCandidates == {LinkFile, LinkFolder, LinkInvalid}

\* the (url, filepath) pairs a caller passes to bulk_download_files
TupleCandidates ==
  { [url |-> DirectUrl("F0"), filepath |-> <<"d", "/", "a", "-">>],
    [url |-> DirectUrl("F1"), filepath |-> <<"d", "/", "b">>],
    [url |-> NoUrl, filepath |-> <<"d", "/", "c">>] }

\* the sequences without repetition over S, of length at most n
InjSeqs(S, n) ==
  { q \in UNION { [1..m -> S] : m \in 0..n } :
      \A a, b \in DOMAIN q : a # b => q[a] # q[b] }

\* where the files of the remote side land locally
LocalPath(key) ==
  CASE key = "F0" -> <<"d", "/", "a", "-">>
    [] key = "F1" -> <<"d", "/", "R", "-", "/", "b">>
    [] key = "F2" -> <<"d", "/", "R", "-", "/", "c">>
    [] key = "F3" -> <<"d", "/", "R", "-", "/", "s", "?", "/", "e">>
    [] key = "F4" -> <<"d", "/", "R", "-", "/", "t", "/", "g">>

\* a local file that is not the remote one
StaleContent == <<"old">>

LocalKeys == {"F0", "F1", "F2"}

\* what is on the local disk before the first run: nothing; everything,
\* up to date; and two mixes of up-to-date, stale and absent files
LocalScenarios ==
  { [k \in LocalKeys |-> "absent"],
    [k \in LocalKeys |-> "fresh"],
    [F0 |-> "fresh", F1 |-> "fresh", F2 |-> "stale"],
    [F0 |-> "stale", F1 |-> "absent", F2 |-> "fresh"] }

\* disks on which a directory lies at the path of a remote file: at the
\* path of the shared file, or at the path of a file of the shared folder
BlockedScenarios ==
  { [F0 |-> "dir", F1 |-> "absent", F2 |-> "absent"],
    [F0 |-> "absent", F1 |-> "fresh", F2 |-> "dir"] }

\* the local files and directories before the first run
InitialFiles(local) ==
  LET present == { k \in LocalKeys : local[k] \in {"fresh", "stale"} } IN
  [ p \in { LocalPath(k) : k \in present } |->
      LET k == CHOOSE key \in present : LocalPath(key) = p IN
      IF local[k] = "fresh" THEN RemoteBytes(k) ELSE StaleContent ]

InitialDirs(local) ==
  UNION { Ancestors(IF local[k] = "dir" THEN LocalPath(k)
                    ELSE DirName(LocalPath(k))) :
            k \in { key \in LocalKeys : local[key] # "absent" } }

(***************************************************************************)
(* State.                                                                  *)
(***************************************************************************)
VARIABLES
  api,                  \* the entry point the caller uses
  urls,                 \* distributed_download_urls' list of links
  url_filepath_tuples,  \* bulk_download_files' list of pairs
  simultaneous,         \* the ceiling both entry points take
  semaphore,            \* the value of asyncio.Semaphore(simultaneous)
  unit,                 \* the sem_download task of each input, by index
  fx,                   \* the dnld_file / download_file execution of each file
  fold,                 \* what dnld_folder / dnld_folder_items did per folder
  dirs,                 \* the local directories
  files,                \* the local files: path -> content
  results,              \* what the entry point returned
  order,                \* the units in the order they finished
  phase,                \* "running", "returned" (the call), "closed" (the loop)
  run,                  \* which run of the invocation this is
  prev,                 \* fx and files as the previous run left them
  faults,               \* remote calls that have failed so far
  filename,             \* the argument of a call of parse_filename on its own
  parsed                \* what parse_filename returned, applied again to it

inputs == <<api, urls, url_filepath_tuples, simultaneous>>
text == <<filename, parsed>>
vars == <<api, urls, url_filepath_tuples, simultaneous, semaphore, unit, fx,
          fold, dirs, files, results, order, phase, run, prev, faults,
          filename, parsed>>

NumUnits == IF api = "bulk" THEN Len(url_filepath_tuples) ELSE Len(urls)

Pending == [pc |-> "pending", success |-> FALSE, err |-> "none", stack |-> <<>>]

Idle ==
  [ pc |-> "idle", owner |-> [kind |-> "none", unit |-> 0], directory |-> <<>>,
    url |-> NoUrl, filepath |-> <<>>, written |-> 0, ret |-> "None",
    err |-> "none", checked |-> "none", calls |-> 0, opens |-> 0 ]

NotExpanded ==
  [ expanded |-> 0, directory |-> <<>>, fetched |-> <<>>, listed |-> FALSE,
    processed |-> <<>>, queued |-> <<>>, returned |-> FALSE, items |-> <<>>,
    listings |-> 0, failed |-> {} ]

\* a dnld_file or download_file execution that has not ended
Active(x) == x.pc \in {"meta", "resolve", "get", "write"}

\* an execution inside download_file (mediafire.py:26-37)
Transferring(x) == x.pc \in {"get", "write"}

\* os.path.exists
exists(path) == path \in DOMAIN files \/ path \in dirs

\* a makedirs that makes the last directory of the path only
makedirs_leaf_only(path) == dirs \cup {path}

\* the directories after os.makedirs(path, exist_ok=True),
\* mediafire.py:98, 110, 144
makedirs(path) == dirs \cup Ancestors(path)

\* mediafire.py:13-18; open() raises on a directory
hash_file(path) == hash_file_content(files[path])

UpToDate_ignoring_hash(filepath, hash) ==
  IF exists(filepath) THEN "fresh" ELSE "stale"

\* the test of mediafire.py:104 and mediafire.py:127
UpToDate(filepath, hash) ==
  IF ~exists(filepath) THEN "stale"
  ELSE IF filepath \notin DOMAIN files THEN "raise"
  ELSE IF hash = hash_file(filepath) THEN "fresh"
  ELSE "stale"

\* one remote call: it succeeds, or it is one of the MaxFaults failures
Fault(ok) ==
  /\ ok \/ faults < MaxFaults
  /\ faults' = IF ok THEN faults ELSE faults + 1

(***************************************************************************)
(* sem_download: mediafire.py:167-177 and mediafire.py:41-52.              *)
(***************************************************************************)
\* sem_download without its try/except around one unit: the exception of a
\* unit ends the units still at work with it
UnitExit_cancelling_siblings(i, ok, err) ==
  LET hit == IF ok THEN {i}
             ELSE {i} \cup { j \in DOMAIN unit : unit[j].pc \in {"file", "folder"} }
  IN /\ unit' = [j \in DOMAIN unit |->
                   IF j = i
                   THEN [pc |-> "done", success |-> ok, err |-> err, stack |-> <<>>]
                   ELSE IF j \in hit
                   THEN [pc |-> "done", success |-> FALSE, err |-> "cancelled",
                         stack |-> <<>>]
                   ELSE unit[j]]
     /\ semaphore' = semaphore + Cardinality(hit)
     /\ order' = Append(order, i)

\* a sem_download that gives its permit back only when the unit succeeded
UnitExit_keeping_permit_on_failure(i, ok, err) ==
  /\ unit' = [unit EXCEPT ![i] =
                [pc |-> "done", success |-> ok, err |-> err, stack |-> <<>>]]
  /\ semaphore' = IF ok THEN semaphore + 1 ELSE semaphore
  /\ order' = Append(order, i)

\* the end of sem_download once download_url has returned or raised:
\* success is set, the semaphore is released, the task is done
UnitExit(i, ok, err) ==
  /\ unit' = [unit EXCEPT ![i] =
                [pc |-> "done", success |-> ok, err |-> err, stack |-> <<>>]]
  /\ semaphore' = semaphore + 1
  /\ order' = Append(order, i)

\* the end of a dnld_file / download_file execution: what awaits it goes on
\* (an inline call returns into sem_download; a gather task just ends)
FileExit(k, x) ==
  /\ fx' = [fx EXCEPT ![k] = x]
  /\ IF fx[k].owner.kind = "inline"
     THEN UnitExit(fx[k].owner.unit, x.pc = "done", x.err)
     ELSE UNCHANGED <<unit, semaphore, order>>

\* dnld_folder(key, dir, is_root_folder=False) up to its first suspension,
\* the request for chunk 1 of the file listing: mediafire.py:144-145, 110-116
EnterFolder(key, dir) ==
  [ key |-> key, directory |-> dir, pc |-> "files", chunk |-> 1, data |-> <<>>,
    tasks |-> <<>>, folders |-> <<>>, idx |-> 0 ]

Entered(f, dir) ==
  [f EXCEPT !.expanded = @ + 1, !.directory = dir, !.fetched = Append(@, 1)]

\* bulk_download_files.sem_download, mediafire.py:43-46: download_file is
\* entered; session.get of something that is no URL raises at once
bulk_sem_download(i) ==
  LET t == url_filepath_tuples[i] IN
  /\ IF t.url = NoUrl
     THEN /\ unit' = [unit EXCEPT ![i] = [pc |-> "done", success |-> FALSE,
                                          err |-> "transfer", stack |-> <<>>]]
          /\ order' = Append(order, i)
          /\ UNCHANGED <<semaphore, fx>>
     ELSE /\ unit' = [unit EXCEPT ![i].pc = "file"]
          /\ semaphore' = semaphore - 1
          /\ fx' = [fx EXCEPT ![UrlKey(t.url)] =
                      [Idle EXCEPT !.pc = "get",
                                   !.owner = [kind |-> "inline", unit |-> i],
                                   !.url = t.url, !.filepath = t.filepath,
                                   !.calls = 1]]
          /\ UNCHANGED order
  /\ UNCHANGED <<fold, dirs, files>>

\* download_url, mediafire.py:154-163, up to its first suspension: the
\* metadata request of dnld_file (mediafire.py:97-99) or the folder info
\* request of dnld_folder (mediafire.py:139-141)
download_url(i) ==
  LET m == get_mfkey_from_url(urls[i]) IN
  CASE m.type = "file" ->
         /\ unit' = [unit EXCEPT ![i].pc = "file"]
         /\ semaphore' = semaphore - 1
         /\ dirs' = makedirs(directory)
         /\ fx' = [fx EXCEPT ![m.key] =
                     [Idle EXCEPT !.pc = "meta",
                                  !.owner = [kind |-> "inline", unit |-> i],
                                  !.directory = directory]]
         /\ UNCHANGED <<fold, files, order>>
    [] m.type = "folder" ->
         /\ unit' = [unit EXCEPT ![i].pc = "folder",
                                 ![i].stack =
                                   << [EnterFolder(m.key, directory)
                                         EXCEPT !.pc = "info"] >>]
         /\ semaphore' = semaphore - 1
         /\ UNCHANGED <<fx, fold, dirs, files, order>>
    [] OTHER ->
         /\ unit' = [unit EXCEPT ![i] = [pc |-> "done", success |-> FALSE,
                                         err |-> "ValueError", stack |-> <<>>]]
         /\ order' = Append(order, i)
         /\ UNCHANGED <<semaphore, fx, fold, dirs, files>>

CanAcquire_without_ceiling == TRUE

\* asyncio.Semaphore.acquire goes through without waiting
CanAcquire == semaphore > 0

\* `async with semaphore` is entered and the unit runs to its first
\* suspension: mediafire.py:168-171 and mediafire.py:43-46
SemAcquire(i) ==
  /\ phase = "running"
  /\ unit[i].pc = "pending"
  /\ CanAcquire
  /\ IF api = "bulk" THEN bulk_sem_download(i) ELSE download_url(i)
  /\ UNCHANGED <<text, inputs, results, phase, run, prev, faults>>

(***************************************************************************)
(* dnld_file and download_file: mediafire.py:95-106 and mediafire.py:26-37 *)
(***************************************************************************)
\* the answer to the metadata request, mediafire.py:99 (67-70)
FileMeta(k) ==
  /\ phase = "running"
  /\ fx[k].pc = "meta"
  /\ \E ok \in BOOLEAN :
       /\ Fault(ok)
       /\ IF ok
          THEN /\ fx' = [fx EXCEPT ![k].pc = "resolve"]
               /\ UNCHANGED <<unit, semaphore, order>>
          ELSE FileExit(k, [fx[k] EXCEPT !.pc = "failed", !.err = "metadata"])
  /\ UNCHANGED <<text, inputs, fold, dirs, files, results, phase, run, prev>>

dnld_file_check_always_stale(k, link) ==
  LET filepath == Join(fx[k].directory, parse_filename(file_info(k).filename))
      x == [fx[k] EXCEPT !.filepath = filepath, !.url = link,
                         !.checked = "stale", !.calls = @ + 1]
  IN IF link = NoUrl
     THEN FileExit(k, [x EXCEPT !.pc = "failed", !.err = "transfer"])
     ELSE /\ fx' = [fx EXCEPT ![k] = [x EXCEPT !.pc = "get"]]
          /\ UNCHANGED <<unit, semaphore, order>>

\* mediafire.py:102-106 with the download link that line 101 returned: the
\* up-to-date test, and download_file up to its request (mediafire.py:28)
dnld_file_check(k, link) ==
  LET filepath == Join(fx[k].directory, parse_filename(file_info(k).filename))
      check == UpToDate(filepath, file_info(k).hash)
      x == [fx[k] EXCEPT !.filepath = filepath, !.url = link, !.checked = check]
  IN CASE check = "raise" ->
            FileExit(k, [x EXCEPT !.pc = "failed", !.err = "hash"])
       [] check = "fresh" ->
            FileExit(k, [x EXCEPT !.pc = "done", !.ret = "True"])
       [] OTHER ->
            IF link = NoUrl
            THEN FileExit(k, [x EXCEPT !.pc = "failed", !.err = "transfer",
                                       !.calls = @ + 1])
            ELSE /\ fx' = [fx EXCEPT ![k] = [x EXCEPT !.pc = "get",
                                                      !.calls = @ + 1]]
                 /\ UNCHANGED <<unit, semaphore, order>>

\* the answer to the landing page request of get_download_url_from_file
\* (mediafire.py:80-89: None when it fails), then mediafire.py:102-106
FileResolve(k) ==
  /\ phase = "running"
  /\ fx[k].pc = "resolve"
  /\ \E ok \in BOOLEAN :
       /\ Fault(ok)
       /\ dnld_file_check(k, IF ok THEN DirectUrl(k) ELSE NoUrl)
  /\ UNCHANGED <<text, inputs, fold, dirs, files, results, phase, run, prev>>

\* a download_file that opens its target before it looks at the status
FileGet_opening_before_status(k) ==
  /\ phase = "running"
  /\ fx[k].pc = "get"
  /\ \E ok \in BOOLEAN :
       /\ Fault(ok)
       /\ IF DirName(fx[k].filepath) \notin dirs \/ fx[k].filepath \in dirs
          THEN /\ FileExit(k, [fx[k] EXCEPT !.pc = "failed", !.err = "open"])
               /\ UNCHANGED files
          ELSE /\ files' = (fx[k].filepath :> <<>>) @@ files
               /\ IF ok
                  THEN /\ fx' = [fx EXCEPT ![k].pc = "write", ![k].opens = @ + 1]
                       /\ UNCHANGED <<unit, semaphore, order>>
                  ELSE FileExit(k, [fx[k] EXCEPT !.pc = "failed",
                                                 !.err = "transfer",
                                                 !.opens = @ + 1])
  /\ UNCHANGED <<text, inputs, fold, dirs, results, phase, run, prev>>

\* the answer to download_file's request, mediafire.py:28-32: a failure or
\* an error status raises; otherwise the target is opened with 'wb'
FileGet(k) ==
  /\ phase = "running"
  /\ fx[k].pc = "get"
  /\ \E ok \in BOOLEAN :
       /\ Fault(ok)
       /\ IF ~ok
          THEN /\ FileExit(k, [fx[k] EXCEPT !.pc = "failed", !.err = "transfer"])
               /\ UNCHANGED files
          ELSE IF DirName(fx[k].filepath) \notin dirs \/ fx[k].filepath \in dirs
          THEN /\ FileExit(k, [fx[k] EXCEPT !.pc = "failed", !.err = "open"])
               /\ UNCHANGED files
          ELSE /\ files' = (fx[k].filepath :> <<>>) @@ files
               /\ fx' = [fx EXCEPT ![k].pc = "write", ![k].opens = @ + 1]
               /\ UNCHANGED <<unit, semaphore, order>>
  /\ UNCHANGED <<text, inputs, fold, dirs, results, phase, run, prev>>

\* one turn of the loop of mediafire.py:33-36: the next chunk is written,
\* the stream ends (mediafire.py:37), or reading it fails
FileWrite(k) ==
  LET bytes == RemoteBytes(UrlKey(fx[k].url)) IN
  /\ phase = "running"
  /\ fx[k].pc = "write"
  /\ \E ok \in BOOLEAN :
       /\ Fault(ok)
       /\ IF ~ok
          THEN /\ FileExit(k, [fx[k] EXCEPT !.pc = "failed", !.err = "transfer"])
               /\ UNCHANGED files
          ELSE IF fx[k].written < Len(bytes)
          THEN /\ files' = [files EXCEPT ![fx[k].filepath] =
                              Append(@, bytes[fx[k].written + 1])]
               /\ fx' = [fx EXCEPT ![k].written = @ + 1]
               /\ UNCHANGED <<unit, semaphore, order>>
          ELSE /\ FileExit(k, [fx[k] EXCEPT !.pc = "done", !.ret = "None"])
               /\ UNCHANGED files
  /\ UNCHANGED <<text, inputs, fold, dirs, results, phase, run, prev>>

(***************************************************************************)
(* dnld_folder and dnld_folder_items: mediafire.py:137-152, 108-135.       *)
(***************************************************************************)
Top(i) == unit[i].stack[Len(unit[i].stack)]

SetTop(stack, frame) == [stack EXCEPT ![Len(stack)] = frame]

InFolder(i, pc) ==
  /\ phase = "running"
  /\ unit[i].pc = "folder"
  /\ Top(i).pc = pc

\* the answer to the folder info request, mediafire.py:141-145, and
\* dnld_folder_items up to its first listing request (mediafire.py:110-116)
FolderInfo(i) ==
  /\ InFolder(i, "info")
  /\ \E ok \in BOOLEAN :
       /\ Fault(ok)
       /\ IF ok
          THEN LET key == Top(i).key
                   dir == Join(Top(i).directory,
                               parse_filename(RemoteName(key)))
               IN /\ dirs' = makedirs(dir)
                  /\ unit' = [unit EXCEPT ![i].stack = <<EnterFolder(key, dir)>>]
                  /\ fold' = [fold EXCEPT ![key] = Entered(@, dir)]
                  /\ UNCHANGED <<semaphore, order>>
          ELSE /\ UnitExit(i, FALSE, "info")
               /\ UNCHANGED <<dirs, fold>>
  /\ UNCHANGED <<text, inputs, fx, files, results, phase, run, prev>>

\* the request of mediafire.py:146-147 for the subfolder listing is out
AwaitFolders(frame) == [frame EXCEPT !.pc = "folders"]

\* the records of `data` that mediafire.py:124-130 queues, in order
Queued(data, dir) ==
  LET Stale(k) ==
        UpToDate(Join(dir, parse_filename(file_info(k).filename)),
                 file_info(k).hash) = "stale"
  IN SelectSeq(data, Stale)

\* the hash_file of mediafire.py:127 raises for one of the records
CheckRaises(data, dir) ==
  \E j \in 1..Len(data) :
    UpToDate(Join(dir, parse_filename(file_info(data[j]).filename)),
             file_info(data[j]).hash) = "raise"

\* the tasks gather starts for mediafire.py:131-133: each a dnld_file of
\* the record's normal_download link, run up to its metadata request
Spawn(queued, i, dir) ==
  LET keys == { get_mfkey_from_url(file_info(queued[j]).normal_download).key :
                  j \in 1..Len(queued) }
  IN [ k \in FileKeys |->
         IF k \in keys
         THEN [Idle EXCEPT !.pc = "meta",
                           !.owner = [kind |-> "task", unit |-> i],
                           !.directory = dir]
         ELSE fx[k] ]

\* mediafire.py:123-135 once the listing is complete
dnld_folder_items_process(i, data) ==
  LET top == Top(i)
      queued == Queued(data, top.directory)
  IN IF CheckRaises(data, top.directory)
     THEN /\ UnitExit(i, FALSE, "hash")
          /\ fold' = [fold EXCEPT ![top.key].listed = TRUE,
                                  ![top.key].processed = data]
          /\ UNCHANGED fx
     ELSE IF queued = <<>>
     THEN /\ unit' = [unit EXCEPT ![i].stack =
                        SetTop(@, AwaitFolders([top EXCEPT !.data = data]))]
          /\ fold' = [fold EXCEPT ![top.key].listed = TRUE,
                                  ![top.key].processed = data,
                                  ![top.key].returned = TRUE,
                                  ![top.key].items = <<>>,
                                  ![top.key].listings = @ + 1]
          /\ UNCHANGED <<fx, semaphore, order>>
     ELSE /\ unit' = [unit EXCEPT ![i].stack =
                        SetTop(@, [top EXCEPT !.data = data, !.pc = "gather",
                                              !.tasks = queued])]
          /\ fold' = [fold EXCEPT ![top.key].listed = TRUE,
                                  ![top.key].processed = data,
                                  ![top.key].queued = queued]
          /\ fx' = Spawn(queued, i, top.directory)
          /\ UNCHANGED <<semaphore, order>>

more_chunks_ignored(page) == FALSE

\* mediafire.py:118
more_chunks(page) == page.more_chunks

\* the answer to one listing request of the loop of mediafire.py:115-120; a
\* failure is swallowed by mediafire.py:121-122 and the folder has no items
FolderFilesPage(i) ==
  /\ InFolder(i, "files")
  /\ \E ok \in BOOLEAN :
       /\ Fault(ok)
       /\ LET top == Top(i)
              page == Page(RemoteFiles(top.key), top.chunk)
              data == top.data \o page.items
          IN IF ~ok
             THEN /\ unit' = [unit EXCEPT ![i].stack = SetTop(@, AwaitFolders(top))]
                  /\ fold' = [fold EXCEPT ![top.key].listings = @ + 1,
                                          ![top.key].failed = @ \cup {"files"}]
                  /\ UNCHANGED <<fx, semaphore, order>>
             ELSE IF more_chunks(page)
             THEN /\ unit' = [unit EXCEPT ![i].stack =
                                SetTop(@, [top EXCEPT !.data = data,
                                                      !.chunk = @ + 1])]
                  /\ fold' = [fold EXCEPT ![top.key].fetched =
                                Append(@, top.chunk + 1)]
                  /\ UNCHANGED <<fx, semaphore, order>>
             ELSE dnld_folder_items_process(i, data)
  /\ UNCHANGED <<text, inputs, dirs, files, results, phase, run, prev>>

\* the tasks of the gather a frame awaits
TaskSet(frame) == { frame.tasks[j] : j \in 1..Len(frame.tasks) }

\* a gather that is done with the first task that ends
GatherDone_when_any_ended(frame) ==
  \E k \in TaskSet(frame) : fx[k].pc \in {"done", "failed"}

\* a gather that waits for every task to return
GatherDone_when_all_returned(frame) ==
  \A k \in { frame.tasks[j] : j \in 1..Len(frame.tasks) } : fx[k].pc = "done"

\* asyncio.gather without return_exceptions: its future is done when a
\* task has raised, or when every task has returned
GatherDone(frame) ==
  \/ \E k \in TaskSet(frame) : fx[k].pc = "failed"
  \/ \A k \in TaskSet(frame) : fx[k].pc = "done"

\* mediafire.py:133-135 resumes: the first exception of a task is raised
\* through dnld_folder_items, dnld_folder and download_url into
\* sem_download (the other tasks are not cancelled); otherwise the results
\* are returned and dnld_folder asks for the subfolder listing
GatherResume(i) ==
  /\ InFolder(i, "gather")
  /\ GatherDone(Top(i))
  /\ LET top == Top(i) IN
     IF \E k \in TaskSet(top) : fx[k].pc = "failed"
     THEN /\ \E k \in TaskSet(top) :
               /\ fx[k].pc = "failed"
               /\ UnitExit(i, FALSE, fx[k].err)
          /\ UNCHANGED fold
     ELSE /\ unit' = [unit EXCEPT ![i].stack = SetTop(@, AwaitFolders(top))]
          /\ fold' = [fold EXCEPT ![top.key].returned = TRUE,
                                  ![top.key].items =
                                    [j \in 1..Len(top.tasks) |-> fx[top.tasks[j]].ret],
                                  ![top.key].listings = @ + 1]
          /\ UNCHANGED <<semaphore, order>>
  /\ UNCHANGED <<text, inputs, fx, dirs, files, results, phase, run, prev, faults>>

\* the frames left once the loop of mediafire.py:150-152 of the top frame
\* has taken its next subfolder, or has ended and dnld_folder has returned
\* into the loop of its caller
RECURSIVE Unwind(_)
Unwind(stack) ==
  IF stack = <<>> THEN <<>>
  ELSE LET top == stack[Len(stack)] IN
       IF top.idx < Len(top.folders)
       THEN SetTop(stack, [top EXCEPT !.idx = @ + 1])
       ELSE Unwind(SubSeq(stack, 1, Len(stack) - 1))

\* the listing the request of mediafire.py:146-148 is answered with: the
\* call passes no chunk, get_mediafire_folder_data's default is 1
folder_content(key) == Page(RemoteFolders(key), 1)

\* the answer to the subfolder listing, mediafire.py:146-152: the loop
\* enters dnld_folder for the next subfolder, at any level, up to that
\* folder's first listing request; with no subfolder left download_url
\* returns
FolderFolders(i) ==
  /\ InFolder(i, "folders")
  /\ \E ok \in BOOLEAN :
       /\ Fault(ok)
       /\ IF ~ok
          THEN /\ UnitExit(i, FALSE, "folders")
               /\ fold' = [fold EXCEPT ![Top(i).key].failed = @ \cup {"folders"}]
               /\ UNCHANGED dirs
          ELSE LET top == Top(i)
                   listed == [top EXCEPT !.pc = "sub",
                                         !.folders = folder_content(top.key).items,
                                         !.idx = 0]
                   rest == Unwind(SetTop(unit[i].stack, listed))
               IN IF rest = <<>>
                  THEN /\ UnitExit(i, TRUE, "none")
                       /\ UNCHANGED <<dirs, fold>>
                  ELSE LET parent == rest[Len(rest)]
                           child == parent.folders[parent.idx]
                           subdir == Join(parent.directory, RemoteName(child))
                       IN /\ unit' = [unit EXCEPT ![i].stack =
                                        Append(rest, EnterFolder(child, subdir))]
                          /\ dirs' = makedirs(subdir)
                          /\ fold' = [fold EXCEPT ![child] = Entered(@, subdir)]
                          /\ UNCHANGED <<semaphore, order>>
  /\ UNCHANGED <<text, inputs, fx, files, results, phase, run, prev>>

(***************************************************************************)
(* The entry points and their caller.                                      *)
(***************************************************************************)
AllDone == \A i \in 1..NumUnits : unit[i].pc = "done"

Outcomes_in_finishing_order == [j \in 1..Len(order) |-> unit[order[j]].success]

\* what gather hands back, mediafire.py:180 and mediafire.py:55
Outcomes == [i \in 1..NumUnits |-> unit[i].success]

\* gather of mediafire.py:180 (mediafire.py:55) is done and the entry point
\* returns its results
Return ==
  /\ phase = "running"
  /\ AllDone
  /\ results' = Outcomes
  /\ phase' = "returned"
  /\ UNCHANGED <<text, inputs, semaphore, unit, fx, fold, dirs, files, order, run,
                 prev, faults>>

\* asyncio.run of main.py:22 ends: the tasks still alive are cancelled and
\* the loop is closed
Close ==
  /\ phase = "returned"
  /\ phase' = "closed"
  /\ fx' = [k \in FileKeys |->
              IF Active(fx[k]) THEN [fx[k] EXCEPT !.pc = "cancelled"] ELSE fx[k]]
  /\ UNCHANGED <<text, inputs, semaphore, unit, fold, dirs, files, results, order,
                 run, prev, faults>>

\* the caller runs the same invocation again (main.py:15-24): the local
\* files are what the earlier run left
Rerun ==
  /\ phase = "closed"
  /\ run < MaxRuns
  /\ run' = run + 1
  /\ prev' = [fx |-> fx, files |-> files]
  /\ semaphore' = simultaneous
  /\ unit' = [i \in 1..NumUnits |-> Pending]
  /\ fx' = [k \in FileKeys |-> Idle]
  /\ fold' = [f \in FolderKeys |-> NotExpanded]
  /\ results' = <<>>
  /\ order' = <<>>
  /\ phase' = "running"
  /\ UNCHANGED <<text, inputs, dirs, files, faults>>

InitOn(scenarios) ==
  /\ api \in {"distributed", "bulk"}
  /\ simultaneous \in 1..MaxSimultaneous
  /\ urls \in IF api = "distributed" THEN InjSeqs(LinkCandidates, MaxLinks)
              ELSE {<<>>}
  /\ url_filepath_tuples \in IF api = "bulk"
                             THEN InjSeqs(TupleCandidates, MaxLinks)
                             ELSE {<<>>}
  /\ semaphore = simultaneous
  /\ unit = [i \in 1..NumUnits |-> Pending]
  /\ fx = [k \in FileKeys |-> Idle]
  /\ fold = [f \in FolderKeys |-> NotExpanded]
  /\ \E local \in scenarios :
       /\ files = InitialFiles(local)
       /\ dirs = InitialDirs(local)
  /\ results = <<>>
  /\ order = <<>>
  /\ phase = "running"
  /\ run = 1
  /\ prev = [fx |-> [k \in FileKeys |-> Idle], files |-> <<>>]
  /\ faults = 0
  /\ filename = <<>>
  /\ parsed = <<>>

Init == InitOn(LocalScenarios)

Next ==
  \/ \E i \in 1..NumUnits : SemAcquire(i)
  \/ \E k \in FileKeys : FileMeta(k)
  \/ \E k \in FileKeys : FileResolve(k)
  \/ \E k \in FileKeys : FileGet(k)
  \/ \E k \in FileKeys : FileWrite(k)
  \/ \E i \in 1..NumUnits : FolderInfo(i)
  \/ \E i \in 1..NumUnits : FolderFilesPage(i)
  \/ \E i \in 1..NumUnits : GatherResume(i)
  \/ \E i \in 1..NumUnits : FolderFolders(i)
  \/ Return
  \/ Close

\* one run of the invocation
Spec == Init /\ [][Next]_vars

NextRerun ==
  \/ Next
  \/ Rerun

\* main.py run on one link
InitRerun ==
  /\ Init
  /\ api = "distributed"
  /\ Len(urls) = 1

\* the invocation, run up to MaxRuns times over the same local disk
SpecRerun == InitRerun /\ [][NextRerun]_vars

\* distributed_download_urls called with two links and one permit over an
\* empty directory: the second unit waits for the permit of the first
InitLive ==
  /\ Init
  /\ api = "distributed"
  /\ simultaneous = 1
  /\ Len(urls) = 2
  /\ files = <<>>

\* one run in which the event loop runs every task that is ready and
\* every remote call is answered, with a result or with a failure
SpecLive == InitLive /\ [][Next]_vars /\ WF_vars(Next)

InitBlocked ==
  /\ InitOn(BlockedScenarios)
  /\ api = "distributed"

\* one run over a disk with a directory at the path of a remote file
SpecBlocked == InitBlocked /\ [][Next]_vars

\* the characters of the filenames: alphanumeric ones, the four that are
\* kept beside them, and two that are not
TextChars == {"a", "1", "-", "_", ".", " ", "/", "?"}

\* "a/b?c.txt"
Example == <<"a", "/", "b", "?", "c", ".", "t", "x", "t">>

Filenames == UNION { [1..n -> TextChars] : n \in 0..MaxLen } \cup {Example}

\* a caller awaits parse_filename (mediafire.py:102, 125, 143): first on
\* the filename, then on what it returned
ParseFilename ==
  /\ Len(parsed) < 2
  /\ parsed' = Append(parsed, parse_filename(IF parsed = <<>> THEN filename
                                              ELSE parsed[Len(parsed)]))
  /\ UNCHANGED <<filename, inputs, semaphore, unit, fx, fold, dirs, files,
                 results, order, phase, run, prev, faults>>

InitText ==
  /\ filename \in Filenames
  /\ parsed = <<>>
  /\ api = "distributed"
  /\ urls = <<>>
  /\ url_filepath_tuples = <<>>
  /\ simultaneous = 1
  /\ semaphore = simultaneous
  /\ unit = <<>>
  /\ fx = [k \in FileKeys |-> Idle]
  /\ fold = [f \in FolderKeys |-> NotExpanded]
  /\ files = <<>>
  /\ dirs = {}
  /\ results = <<>>
  /\ order = <<>>
  /\ phase = "closed"
  /\ run = 1
  /\ prev = [fx |-> [k \in FileKeys |-> Idle], files |-> <<>>]
  /\ faults = 0

NextText == ParseFilename

\* parse_filename on its own, over the filenames of up to MaxLen characters
SpecText == InitText /\ [][NextText]_vars

(***************************************************************************)
(* Properties.                                                             *)
(***************************************************************************)
Returned == phase \in {"returned", "closed"}

Units == 1..NumUnits

\* what input i asks for, and the file it names
UnitKind(i) ==
  IF api = "bulk"
  THEN IF url_filepath_tuples[i].url = NoUrl THEN "None" ELSE "file"
  ELSE get_mfkey_from_url(urls[i]).type

UnitKey(i) ==
  IF api = "bulk" THEN UrlKey(url_filepath_tuples[i].url)
  ELSE get_mfkey_from_url(urls[i]).key

\* how the work input i asks for has ended, read off the work itself
OwnOutcome(i) ==
  CASE UnitKind(i) = "file" -> fx[UnitKey(i)].pc = "done"
    [] UnitKind(i) = "folder" -> unit[i].err = "none"
    [] OTHER -> FALSE

\* the units that hold a permit: inside `async with semaphore`
Holders == { i \in Units : unit[i].pc \in {"file", "folder"} }

\* C1: the entry point returns one outcome per input, and the outcome at
\* index i is the one of the unit of input i, in whatever order the units
\* finished (distributed_download_urls and bulk_download_files alike).
C1_OneOutcomePerInputInOrder ==
  Returned =>
    /\ Len(results) = NumUnits
    /\ \A i \in Units : results[i] = OwnOutcome(i)

\* C1: the call has returned two different outcomes for two units of which
\* the second finished first.
C1_Witness ==
  /\ phase = "returned"
  /\ NumUnits = 2
  /\ order = <<2, 1>>
  /\ results[1] # results[2]

\* C2: never more than `simultaneous` units hold the permit, also when
\* units fail.
C2_HoldersWithinCeiling == Cardinality(Holders) <= simultaneous

\* C2: the ceiling binds: every permit is held, a unit waits for one, and a
\* file unit has failed.
C2_Witness ==
  /\ Cardinality(Holders) = simultaneous
  /\ \E i \in Units : unit[i].pc = "pending"
  /\ \E k \in FileKeys : fx[k].pc = "failed"

\* C3: the number of file transfers in flight never exceeds `simultaneous`,
\* the file units of folders counted.
C3_TransfersWithinCeiling ==
  Cardinality({ k \in FileKeys : Transferring(fx[k]) }) <= simultaneous

\* the files of the folder tree a folder unit walks
TreeFiles == {"F1", "F2", "F3", "F4"}

\* the work of unit i itself has raised
OwnFailure(i) ==
  CASE UnitKind(i) = "file" -> fx[UnitKey(i)].pc = "failed"
    [] UnitKind(i) = "folder" ->
         \/ unit[i].err \in {"info", "folders", "hash"}
         \/ \E k \in TreeFiles : fx[k].pc = "failed" /\ fx[k].err = unit[i].err
    [] OTHER -> TRUE

C4_OwnOutcomeOnly ==
  /\ \A i \in Units :
       unit[i].pc = "done" => (unit[i].success <=> ~OwnFailure(i))
  /\ Returned =>
       /\ \A i \in Units : unit[i].pc = "done"
       /\ Len(results) = NumUnits
       /\ \A i \in Units : results[i] = unit[i].success

C4_OthersUntouched ==
  \A i \in Units, j \in Units :
    (i # j /\ unit[i].pc # "done" /\ unit'[i].pc = "done")
      => unit'[j] = unit[j]

\* C4: a top-level unit that raises gets a failure in its own slot and
\* nothing else: the step that ends it changes no other unit, every unit
\* ends with the outcome of its own work, and the call returns its list.
C4_FailureIsolation == [](C4_OwnOutcomeOnly) /\ [][C4_OthersUntouched]_vars

\* C4: the call has returned a failure for a unit whose remote call failed
\* first, and a success for a unit that was still to finish.
C4_Witness ==
  /\ phase = "returned"
  /\ \E i \in Units, j \in Units :
       /\ order = <<i, j>>
       /\ ~results[i] /\ unit[i].err \notin {"none", "ValueError"}
       /\ results[j]

\* C5: when the entry point has returned, no dnld_file or download_file
\* execution started during the call is still in flight.
C5_BarrierAtReturn ==
  phase = "returned" => \A k \in FileKeys : ~Active(fx[k])

\* the local file of k has the digest the remote record gives
FreshOnDisk(k) ==
  /\ LocalPath(k) \in DOMAIN files
  /\ hash_file(LocalPath(k)) = file_info(k).hash

\* an execution that has ended by returning or raising
Ended(x) == x.pc \in {"done", "failed"}

\* C6 as stated: an up-to-date file gets no transfer and is not opened; a
\* file that is absent or differs gets exactly one transfer.
C6_SkipOrExactlyOneTransfer ==
  api = "distributed" =>
    \A k \in FileKeys :
      Ended(fx[k]) =>
        IF fx[k].ret = "True"
        THEN fx[k].calls = 0 /\ fx[k].opens = 0
        ELSE fx[k].calls = 1

C6_Counts ==
  api = "distributed" =>
    \A k \in FileKeys :
      /\ fx[k].calls <= 1
      /\ fx[k].opens <= fx[k].calls
      /\ Transferring(fx[k]) => fx[k].calls = 1
      /\ fx[k].pc = "done" =>
           IF fx[k].ret = "True"
           THEN fx[k].calls = 0 /\ fx[k].opens = 0 /\ FreshOnDisk(k)
           ELSE fx[k].calls = 1 /\ fx[k].opens = 1

C6_Test ==
  api = "distributed" =>
    /\ \A k \in FileKeys :
         \* no step issues a transfer for, or opens, an up-to-date file
         /\ FreshOnDisk(k) =>
              fx'[k].calls = fx[k].calls /\ fx'[k].opens = fx[k].opens
         \* the test of mediafire.py:104 sends a file that differs or is
         \* absent to download_file, once
         /\ (~FreshOnDisk(k) /\ fx[k].pc = "resolve" /\ Ended(fx'[k]))
              => fx'[k].calls = 1
         /\ (~FreshOnDisk(k) /\ fx[k].pc = "resolve" /\ Active(fx'[k]))
              => fx'[k].calls = IF fx'[k].pc = "get" THEN 1 ELSE 0
    /\ \A f \in FolderKeys :
         \* the test of mediafire.py:127 queues exactly the records that
         \* differ or are absent
         (~fold[f].listed /\ fold'[f].listed
            /\ ~CheckRaises(fold'[f].processed, fold'[f].directory))
           => \A j \in 1..Len(fold'[f].processed) :
                LET k == fold'[f].processed[j] IN
                IF FreshOnDisk(k) THEN fx'[k] = Idle ELSE fx'[k].pc = "meta"

\* C6 (amended): a unit that finds its file up to date issues no transfer
\* and never opens it; for a file that is absent or differs, folder
\* expansion queues one unit and the unit issues exactly one transfer once
\* it reaches the test of dnld_file, and no unit ever issues more than one.
C6_SkipIffUpToDate == [](C6_Counts) /\ [][C6_Test]_vars

\* C6: one file was skipped by dnld_file, one by dnld_folder_items, and a
\* stale file of the same folder has been transferred.
C6_Witness ==
  /\ api = "distributed"
  /\ fx["F0"].pc = "done" /\ fx["F0"].ret = "True"
  /\ fold["FOLD"].listed /\ fold["FOLD"].queued = <<"F2">>
  /\ fold["FOLD"].processed = <<"F1", "F2">>
  /\ fx["F2"].pc = "done" /\ fx["F2"].calls = 1

\* the earlier run completed the transfer of k
PrevCompleted(k) == prev.fx[k].pc = "done" /\ prev.fx[k].ret = "None"

\* a proper prefix of the remote bytes
Truncated(content, bytes) ==
  /\ Len(content) < Len(bytes)
  /\ content = SubSeq(bytes, 1, Len(content))

\* the earlier run issued a transfer of k that did not complete and left
\* the local file absent or truncated
PrevFailedPartial(k) ==
  /\ prev.fx[k].pc \in {"failed", "cancelled"}
  /\ prev.fx[k].calls = 1
  /\ \/ LocalPath(k) \notin DOMAIN prev.files
     \/ Truncated(prev.files[LocalPath(k)], RemoteBytes(k))

\* C7 as stated: the second run issues no transfer for a file the first
\* run completed, and a transfer for every file whose first-run transfer
\* failed and left the local file absent or truncated.
C7_RerunTransfersExactlyTheFailed ==
  (api = "distributed" /\ run >= 2 /\ phase = "closed") =>
    \A k \in FileKeys :
      /\ PrevCompleted(k) => fx[k].calls = 0
      /\ PrevFailedPartial(k) => fx[k].calls = 1

\* C7 (amended): a later run issues no transfer for a file the earlier run
\* completed; a file whose earlier transfer failed and left the local file
\* absent or truncated is never taken as up to date: folder expansion
\* queues it again and its unit, once at the test of dnld_file, issues the
\* transfer (a unit that fails before the test issues none).
C7_RerunSkipsOnlyCompleted ==
  (api = "distributed" /\ run >= 2) =>
    \A k \in FileKeys :
      /\ PrevCompleted(k) =>
           fx[k].calls = 0 /\ fx[k].opens = 0 /\ fx[k].checked # "stale"
      /\ PrevFailedPartial(k) =>
           /\ fx[k].checked # "fresh"
           /\ fx[k].checked = "stale" => fx[k].calls = 1
           /\ fx[k].pc = "done" => fx[k].ret = "None" /\ fx[k].calls = 1
           /\ \A f \in FolderKeys :
                (fold[f].listed
                   /\ \E j \in 1..Len(fold[f].processed) : fold[f].processed[j] = k)
                  => \E j \in 1..Len(fold[f].queued) : fold[f].queued[j] = k

\* C7: in the second run a file the first run completed was skipped and a
\* file the first run left truncated has been transferred again.
C7_Witness ==
  /\ api = "distributed" /\ run = 2
  /\ \E k \in FileKeys :
       /\ PrevCompleted(k)
       /\ \/ fx[k].pc = "done" /\ fx[k].ret = "True"
          \/ \E f \in FolderKeys :
               /\ fold[f].listed /\ fx[k].pc = "idle"
               /\ \E j \in 1..Len(fold[f].processed) : fold[f].processed[j] = k
  /\ \E k \in FileKeys :
       /\ PrevFailedPartial(k)
       /\ LocalPath(k) \in DOMAIN prev.files
       /\ fx[k].pc = "done" /\ fx[k].calls = 1

\* C8: dnld_folder_items returns one outcome per record of the listing, in
\* listing order: Skipped (True) for an up-to-date record, Completed
\* (None) for a transferred one.
C8_OneOutcomePerRecord ==
  \A f \in FolderKeys :
    fold[f].returned =>
      fold[f].items =
        [ j \in 1..Len(fold[f].processed) |->
            IF \E q \in 1..Len(fold[f].queued) :
                 fold[f].queued[q] = fold[f].processed[j]
            THEN "None" ELSE "True" ]

\* the number of chunks of a listing: the first chunk without more_chunks
NumPages(all) ==
  IF Len(all) = 0 THEN 1 ELSE (Len(all) + PageLen - 1) \div PageLen

\* the entries of chunks 1..n of a listing, in fetch order
RECURSIVE Concatenated(_, _)
Concatenated(all, n) ==
  IF n = 0 THEN <<>> ELSE Concatenated(all, n - 1) \o Page(all, n).items

\* C9: dnld_folder_items fetches the chunks 1, 2, ..., k of a file listing
\* of k chunks once each and in that order, and none after k; what it
\* processes is the k chunks' files in fetch order, and no file of the
\* folder is processed before chunk k has been fetched.
C9_Pagination ==
  \A f \in FolderKeys :
    LET k == NumPages(RemoteFiles(f)) IN
    api = "distributed" =>
    /\ Len(fold[f].fetched) <= k
    /\ \A c \in 1..Len(fold[f].fetched) : fold[f].fetched[c] = c
    /\ fold[f].listed =>
         /\ Len(fold[f].fetched) = k
         /\ fold[f].processed = Concatenated(RemoteFiles(f), k)
    /\ ~fold[f].listed =>
         \A j \in 1..Len(RemoteFiles(f)) : fx[RemoteFiles(f)[j]].pc = "idle"

\* C9: a listing of two chunks has been fetched and its two files are
\* processed together.
C9_Witness ==
  \E f \in FolderKeys :
    /\ fold[f].listed
    /\ fold[f].fetched = <<1, 2>>
    /\ Len(fold[f].processed) = 2
    /\ \A j \in 1..2 : fx[fold[f].processed[j]].pc = "meta"

\* where the folders of the remote tree belong locally
LocalDir(f) ==
  CASE f = "FOLD" -> <<"d", "/", "R", "-">>
    [] f = "SUB" -> <<"d", "/", "R", "-", "/", "s", "?">>
    [] f = "SUB2" -> <<"d", "/", "R", "-", "/", "t">>

\* C10: a root dnld_folder call that met no failure has expanded every
\* folder of the tree once, made its local directory, and transferred or
\* skipped every file of every folder.
C10_TreeComplete ==
  \A i \in Units :
    (api = "distributed" /\ UnitKind(i) = "folder" /\ faults = 0
       /\ unit[i].pc = "done" /\ unit[i].success)
      => \A f \in FolderKeys :
           /\ fold[f].expanded = 1
           /\ LocalDir(f) \in dirs
           /\ \A j \in 1..Len(RemoteFiles(f)) :
                LET k == RemoteFiles(f)[j] IN
                fx[k].pc = "done" \/ (fx[k].pc = "idle" /\ FreshOnDisk(k))

\* the folders a remote folder lists, and the folders of its subtree
Children(f) == { RemoteFolders(f)[j] : j \in 1..Len(RemoteFolders(f)) }

RECURSIVE Subtree(_)
Subtree(f) == {f} \cup UNION { Subtree(g) : g \in Children(f) }

\* the folders one of whose listing calls has failed
FailedListing == { f \in FolderKeys : fold[f].failed # {} }

\* the number of listing calls that have failed
ListingFailures ==
  Cardinality({ c \in FolderKeys \X {"files", "folders"} :
                  c[2] \in fold[c[1]].failed })

\* every file of folder f has been transferred or was up to date
FolderFilesDone(f) ==
  \A j \in 1..Len(RemoteFiles(f)) :
    LET k == RemoteFiles(f)[j] IN
    fx[k].pc = "done" \/ (fx[k].pc = "idle" /\ FreshOnDisk(k))

\* C11: a listing call that fails for a folder F aborts only the subtree
\* of F: no file of F is transferred when its file listing failed, the
\* failure does not end the enclosing folders (the folder unit does not
\* fail with it), and with no other failure every folder outside the
\* subtree of F is expanded and its files transferred.
C11_ListingFailureAbortsOnlySubtree ==
  \A i \in Units :
    (api = "distributed" /\ UnitKind(i) = "folder" /\ FailedListing # {}) =>
      /\ \A f \in FailedListing :
           "files" \in fold[f].failed =>
             \A j \in 1..Len(RemoteFiles(f)) : fx[RemoteFiles(f)[j]].calls = 0
      /\ unit[i].err # "folders"
      /\ (unit[i].pc = "done" /\ faults = ListingFailures) =>
           \A g \in FolderKeys \ UNION { Subtree(f) : f \in FailedListing } :
             fold[g].expanded = 1 /\ FolderFilesDone(g)

\* the links that match neither the file nor the folder pattern
InvalidLinks == {LinkInvalid}

InvalidUnits ==
  IF api = "distributed" THEN { i \in Units : urls[i] \in InvalidLinks } ELSE {}

C12_NoWorkForInvalid ==
  \A i \in InvalidUnits :
    /\ unit[i].pc \in {"pending", "done"}
    /\ unit[i].stack = <<>>
    /\ \A k \in FileKeys : fx[k].owner.unit # i
    /\ unit[i].pc = "done" => ~unit[i].success /\ unit[i].err = "ValueError"
    /\ Returned => Len(results) = NumUnits /\ ~results[i]

C12_NothingTouched ==
  \A i \in InvalidUnits :
    unit'[i] # unit[i] =>
      /\ unit[i].pc = "pending" /\ unit'[i].pc = "done"
      /\ \A j \in Units \ {i} : unit'[j] = unit[j]
      /\ UNCHANGED <<fx, fold, dirs, files, semaphore, faults>>

\* C12: a link that matches neither pattern fails with the invalid-link
\* error in the step that routes it: no remote call is issued for it, no
\* directory or file is created, no other unit and no permit changes; its
\* outcome in the returned list is a failure.
C12_InvalidLinkFailsFirst ==
  [](C12_NoWorkForInvalid) /\ [][C12_NothingTouched]_vars

\* C12: the call has returned a failure for an invalid link that ended
\* first and a success for the other link.
C12_Witness ==
  /\ phase = "returned"
  /\ \E i \in InvalidUnits, j \in Units :
       /\ order = <<i, j>>
       /\ ~results[i] /\ unit[i].err = "ValueError"
       /\ results[j]

\* C13: the up-to-date check is a total decision: it never raises out of
\* dnld_file or dnld_folder_items; a path that cannot be read as a file
\* counts as not up to date and its unit goes on to the transfer; the
\* check is true only for a regular file with the expected digest.
C13_CheckIsTotal ==
  api = "distributed" =>
    /\ \A k \in FileKeys :
         /\ fx[k].checked \in {"none", "stale", "fresh"}
         /\ fx[k].checked = "stale" => fx[k].calls = 1
         /\ fx[k].checked = "fresh" => FreshOnDisk(k)
    /\ \A i \in Units : unit[i].err # "hash"
    /\ \A f \in FolderKeys :
         fold[f].listed =>
           \A j \in 1..Len(fold[f].processed) :
             LET k == fold[f].processed[j] IN
             FreshOnDisk(k) \/ fx[k].pc # "idle"

\* C14: parse_filename returns, for every filename, a string of the same
\* length that holds at each position the character of the filename when
\* it is alphanumeric or one of "-", "_", ".", " " and "-" otherwise;
\* applied to its own result it returns that result; "a/b?c.txt" maps to
\* "a-b-c.txt".
C14_ParseFilename ==
  /\ \A n \in 1..Len(parsed) :
       LET s == IF n = 1 THEN filename ELSE parsed[n - 1]
           r == parsed[n]
       IN /\ DOMAIN r = 1..Len(s)
          /\ \A i \in 1..Len(s) :
               r[i] = IF s[i] \in Alnum \cup {"-", "_", ".", " "}
                      THEN s[i] ELSE "-"
  /\ Len(parsed) = 2 => parsed[2] = parsed[1]
  /\ (filename = Example /\ Len(parsed) >= 1) =>
       parsed[1] = <<"a", "-", "b", "-", "c", ".", "t", "x", "t">>

\* C14: parse_filename has been applied twice to "a/b?c.txt", which it
\* changes.
C14_Witness ==
  /\ filename = Example
  /\ Len(parsed) = 2
  /\ parsed[1] # filename

\* the file units whose transfer (or whose call of download_file without
\* a direct URL) has failed
FailedTransfers ==
  { k \in FileKeys : fx[k].pc = "failed" /\ fx[k].err = "transfer" }

\* C15: when the transfer of one file of a folder fails, the failure stays
\* in that file's unit: the folder unit does not fail with it, the other
\* file units of the folder end by returning or raising, and (no other
\* call failing) the subfolders the folder lists are expanded.
C15_FileFailureStaysInFileUnit ==
  \A i \in Units :
    (api = "distributed" /\ UnitKind(i) = "folder") =>
      \A f \in FolderKeys :
        (\E j \in 1..Len(fold[f].queued) : fold[f].queued[j] \in FailedTransfers)
          => /\ unit[i].err # "transfer"
             /\ phase = "closed" =>
                  \A j \in 1..Len(fold[f].queued) : Ended(fx[fold[f].queued[j]])
             /\ (unit[i].pc = "done" /\ faults = Cardinality(FailedTransfers)) =>
                  \A c \in 1..Len(folder_content(f).items) :
                    fold[folder_content(f).items[c]].expanded = 1

\* C16: permits held plus permits free is `simultaneous` in every state:
\* a unit holds one permit from its acquisition to its end and gives it
\* back whether it succeeded or failed; once the entry point has returned
\* every permit is free.
C16_PermitAccounting ==
  /\ semaphore >= 0
  /\ semaphore + Cardinality(Holders) = simultaneous
  /\ \A i \in Units : unit[i].pc = "done" => i \notin Holders
  /\ Returned => semaphore = simultaneous

\* C16: the call has returned with every permit free after one unit that
\* held a permit failed and another succeeded.
C16_Witness ==
  /\ phase = "returned"
  /\ semaphore = simultaneous
  /\ \E i \in Units : ~unit[i].success /\ unit[i].err \in {"transfer", "metadata", "info"}
  /\ \E i \in Units : unit[i].success

\* a unit goes from Pending to routing and work under a permit, or to its
\* end, and from work to its end; an ended unit stays ended
C17_UnitSteps ==
  \A i \in Units :
    unit'[i].pc # unit[i].pc =>
      \/ unit[i].pc = "pending" /\ unit'[i].pc \in {"file", "folder", "done"}
      \/ unit[i].pc \in {"file", "folder"} /\ unit'[i].pc = "done"

\* C17: with every remote call answered and every listing ending, each
\* submitted link leaves Pending, is routed to a file transfer or a folder
\* expansion and ends, and the entry point returns: no unit waits for a
\* permit or pages through a listing forever.
C17_Termination ==
  /\ [][C17_UnitSteps]_vars
  /\ [](Returned => \A i \in Units : unit[i].pc = "done")
  /\ <>Returned

\* C17: with one permit, a file unit and a folder unit that paged through
\* a listing of two chunks have both ended and the call has returned.
C17_Witness ==
  /\ phase = "returned"
  /\ api = "distributed" /\ simultaneous = 1 /\ NumUnits = 2
  /\ \A i \in Units : unit[i].err # "ValueError"
  /\ fold["FOLD"].fetched = <<1, 2>>

C18_Opened ==
  api = "distributed" =>
    \A k \in FileKeys :
      /\ fx[k].err # "open"
      /\ fx[k].opens > 0 =>
           /\ Ancestors(fx[k].directory) \subseteq dirs
           /\ fx[k].filepath =
                Join(fx[k].directory, parse_filename(file_info(k).filename))
           /\ DirName(fx[k].filepath) = fx[k].directory

C18_Open ==
  api = "distributed" =>
    \A k \in FileKeys :
      fx'[k].opens > fx[k].opens =>
        /\ Ancestors(fx[k].directory) \subseteq dirs
        /\ DirName(fx[k].filepath) = fx[k].directory

\* C18: whenever download_file opens directory/filename for writing, the
\* directory and all its ancestors exist already, made by the unit on its
\* way there: for the single file, for the files of the root folder and
\* for the files of a nested subfolder; no open finds its directory
\* missing.
C18_DirectoryBeforeWrite == [](C18_Opened) /\ [][C18_Open]_vars

\* C18: the single file, a file of the root folder and a file of a nested
\* subfolder have been opened for writing.
C18_Witness ==
  /\ api = "distributed"
  /\ fx["F0"].opens = 1
  /\ fx["F1"].opens = 1
  /\ fx["F3"].opens = 1

C19_Refused ==
  \A k \in FileKeys :
    (fx[k].pc = "get" /\ fx'[k].pc = "failed" /\ fx'[k].err = "transfer") =>
      /\ files' = files
      /\ dirs' = dirs
      /\ fx'[k].opens = fx[k].opens

C19_NotOpened ==
  \A k \in FileKeys :
    (fx[k].pc = "failed" /\ fx[k].err = "transfer" /\ fx[k].opens = 0) =>
      /\ fx[k].written = 0
      /\ fx[k].filepath \in DOMAIN files => files[fx[k].filepath] # <<>>

\* C19: when the transfer request is answered with a failure or an error
\* status, download_file raises before it opens the target: the step
\* changes no local file and no directory; no file is created at the
\* target path and a file that was there keeps its content.
C19_RefusedTransferLeavesDisk == [](C19_NotOpened) /\ [][C19_Refused]_vars

\* C19: a transfer was refused for a file that exists locally with another
\* content, and the local file still has that content.
C19_Witness ==
  \E k \in FileKeys :
    /\ fx[k].pc = "failed" /\ fx[k].err = "transfer"
    /\ fx[k].calls = 1 /\ fx[k].opens = 0
    /\ fx[k].url # NoUrl
    /\ fx[k].filepath \in DOMAIN files
    /\ files[fx[k].filepath] = StaleContent

\* no file unit of folder f is at work
FolderFilesQuiet(f) ==
  \A j \in 1..Len(RemoteFiles(f)) : ~Active(fx[RemoteFiles(f)[j]])

C20_Traversal ==
  /\ \A f \in FolderKeys : fold[f].expanded <= 1
  /\ \A i \in Units :
       unit[i].pc = "folder" =>
         LET st == unit[i].stack IN
         /\ Len(st) >= 1
         /\ semaphore < simultaneous
         /\ st[Len(st)].pc \in {"info", "files", "gather", "folders"}
         /\ \A n \in 1..Len(st) :
              \* the frames are a path of the tree: a caller waits in
              \* its loop for the subfolder it has entered
              /\ n < Len(st) =>
                   /\ st[n].pc = "sub"
                   /\ st[n].idx \in 1..Len(st[n].folders)
                   /\ st[n + 1].key = st[n].folders[st[n].idx]
              \* the subfolder listing is asked for after the file units
              /\ st[n].pc \in {"folders", "sub"} => FolderFilesQuiet(st[n].key)
              \* the subfolders before the current one are complete, the
              \* ones after it not begun
              /\ st[n].pc = "sub" =>
                   /\ \A c \in 1..(st[n].idx - 1) :
                        LET g == st[n].folders[c] IN
                        /\ fold[g].expanded = 1
                        /\ \A h \in Subtree(g) : FolderFilesQuiet(h)
                        /\ \A m \in 1..Len(st) : st[m].key \notin Subtree(g)
                   /\ \A c \in (st[n].idx + 1)..Len(st[n].folders) :
                        fold[st[n].folders[c]].expanded = 0

C20_UnderPermit ==
  /\ fold' # fold =>
       \E i \in Units : unit[i].pc = "folder" /\ UnitKind(i) = "folder"
  /\ \A i \in Units :
       (unit[i].pc = "pending" /\ unit'[i].pc = "folder") =>
         /\ semaphore' = semaphore - 1
         /\ unit'[i].stack[1].pc = "info"
         /\ fold' = fold

====
